---------------------------- MODULE Spec2Model ----------------------------
(***************************************************************************)
(* Model of the podcast-whisper pipeline:                                  *)
(*   - PodcastDownloader  (src/src/rss_parser.py): parse_feed,             *)
(*     download_file, download_specific_episodes, download_recent_episodes *)
(*   - PodcastTranscriber (src/src/transcriber.py): transcribe_file        *)
(* Texts (titles, URLs, file names, segment texts) are sequences of        *)
(* one-character strings, so that truncation, sanitisation, stripping and  *)
(* the episode-number pattern are computed, not assumed.                   *)
(***************************************************************************)
EXTENDS Integers, Sequences, FiniteSets, TLC

\* ------------------------------------------------------------------ bounds
\* longest remote feed (entries)
MaxFeed == 3
\* longest target_numbers list passed to download_specific_episodes
MaxTargets == 3
\* largest count passed to download_recent_episodes
MaxCount == 3
\* chunks iter_content yields for one audio body
MaxChunks == 1
\* invocations of the downloader's methods in one run
MaxCalls == 2
\* most segments the ASR stream yields for one file
MaxSegs == 5

\* ------------------------------------------------------- program constants
\* ep['title'][:40]
TitleCut == 40
\* MAX_REPEATS = 1
MAX_REPEATS == 1

\* --------------------------------------------------------------- optionals
\* Python's None and a present value
None == <<>>
Some(x) == <<x>>

Min(a, b) == IF a <= b THEN a ELSE b
Max(a, b) == IF a >= b THEN a ELSE b
Range(s) == {s[i] : i \in 1..Len(s)}

\* ------------------------------------------------------------------- texts
Digits == {"0", "1", "2", "3", "4", "5", "6", "7", "8", "9"}
DigitVal(c) ==
    CASE c = "0" -> 0 [] c = "1" -> 1 [] c = "2" -> 2 [] c = "3" -> 3
      [] c = "4" -> 4 [] c = "5" -> 5 [] c = "6" -> 6 [] c = "7" -> 7
      [] c = "8" -> 8 [] c = "9" -> 9

RECURSIVE SkipWs(_, _)
\* \s* : first index >= j that is not whitespace
SkipWs(t, j) == IF j <= Len(t) /\ t[j] = " " THEN SkipWs(t, j + 1) ELSE j

RECURSIVE DigitsEnd(_, _)
\* \d+ (greedy): first index >= j that is not a digit
DigitsEnd(t, j) == IF j <= Len(t) /\ t[j] \in Digits THEN DigitsEnd(t, j + 1) ELSE j

RECURSIVE ParseInt(_)
\* int(group(1))
ParseInt(ds) ==
    IF ds = <<>> THEN 0
    ELSE 10 * ParseInt(SubSeq(ds, 1, Len(ds) - 1)) + DigitVal(ds[Len(ds)])

\* where the digits start when (?i)EP\.?\s*(\d+) matches at index i, else 0
NumStart(t, i) ==
    IF i + 1 <= Len(t) /\ t[i] \in {"E", "e"} /\ t[i + 1] \in {"P", "p"}
    THEN LET j0 == IF i + 2 <= Len(t) /\ t[i + 2] = "." THEN i + 3 ELSE i + 2
             j  == SkipWs(t, j0)
         IN  IF j <= Len(t) /\ t[j] \in Digits THEN j ELSE 0
    ELSE 0

\* re.search(r"(?i)EP\.?\s*(\d+)", title): leftmost match, None without one
ExtractEpNumber(t) ==
    LET hits == {i \in 1..Len(t) : NumStart(t, i) # 0}
    IN  IF hits = {} THEN None
        ELSE LET i == CHOOSE x \in hits : \A y \in hits : x <= y
                 j == NumStart(t, i)
             IN  Some(ParseInt(SubSeq(t, j, DigitsEnd(t, j) - 1)))

\* "m4a" in url
Contains(s, sub) ==
    \E i \in 1..(Len(s) - Len(sub) + 1) : SubSeq(s, i, i + Len(sub) - 1) = sub

RECURSIVE LStrip(_)
LStrip(s) == IF s # <<>> /\ Head(s) = " " THEN LStrip(Tail(s)) ELSE s
RECURSIVE RStrip(_)
RStrip(s) ==
    IF s # <<>> /\ s[Len(s)] = " " THEN RStrip(SubSeq(s, 1, Len(s) - 1)) ELSE s
\* str.strip()
Strip(s) == LStrip(RStrip(s))

IllegalChars == {"\\", "/", "*", "?", ":", "\"", "<", ">", "|"}
IsLegal(c) == c \notin IllegalChars
\* re.sub(r'[\\/*?:"<>|]', '', filename).strip(); the file is identified by
\* its name inside save_dir
SafePath(filename) == Strip(SelectSeq(filename, IsLegal))

\* ext = ".mp3"; if "m4a" in url: ext = ".m4a"; f"{title[:40]}{ext}"
EpisodeFilename(ep) ==
    LET ext == IF Contains(ep.url, <<"m", "4", "a">>)
               THEN <<".", "m", "4", "a">> ELSE <<".", "m", "p", "3">>
    IN  SubSeq(ep.title, 1, Min(Len(ep.title), TitleCut)) \o ext

\* ------------------------------------------------------ the remote RSS feed
AudioTypes == {"audio/mpeg", "audio/x-m4a"}
\* link.get('type', '').startswith('audio')
IsAudio(l) == l.type \in AudioTypes

Mp3Url == <<"u", ".", "m", "p", "3">>
M4aUrl == <<"v", ".", "m", "4", "a">>
PageUrl == <<"p">>

\* feed entries the remote document may list: a numbered episode, a second
\* entry with the same number (audio only under enclosures; its title
\* sanitises to the same file name), an episode in the other container, an unnumbered episode, and an entry with no audio at all
EntryPool ==
    { [title |-> <<"E", "P", "1">>,
       links |-> <<[type |-> "audio/mpeg", href |-> Mp3Url]>>,
       enclosures |-> <<>>],
      [title |-> <<"E", "P", "1", "?">>,
       links |-> <<[type |-> "text/html", href |-> PageUrl]>>,
       enclosures |-> <<[type |-> "audio/mpeg", href |-> Mp3Url]>>],
      [title |-> <<"e", "p", ".", " ", "2">>,
       links |-> <<[type |-> "audio/x-m4a", href |-> M4aUrl]>>,
       enclosures |-> <<>>],
      [title |-> <<"x">>,
       links |-> <<[type |-> "audio/mpeg", href |-> Mp3Url]>>,
       enclosures |-> <<>>],
      [title |-> <<"E", "P", "2">>,
       links |-> <<[type |-> "text/html", href |-> PageUrl]>>,
       enclosures |-> <<>>] }

\* a document lists an entry once
Feeds ==
    UNION {{f \in [1..n -> EntryPool] :
               \A i, j \in 1..n : i # j => f[i] # f[j]} : n \in 0..MaxFeed}

\* the href of the first audio link of a list, None without one
FirstAudio(ls) ==
    LET hits == {i \in 1..Len(ls) : IsAudio(ls[i])}
    IN  IF hits = {} THEN None
        ELSE Some(ls[CHOOSE x \in hits : \A y \in hits : x <= y].href)

\* links first, enclosures as the fallback
AudioUrl(entry) ==
    IF FirstAudio(entry.links) # None THEN FirstAudio(entry.links)
    ELSE FirstAudio(entry.enclosures)

RECURSIVE ParseEntries(_)
\* the loop of parse_feed: one episode record per entry that has audio
ParseEntries(es) ==
    IF es = <<>> THEN <<>>
    ELSE LET e == Head(es)
             a == AudioUrl(e)
         IN  (IF a = None THEN <<>>
              ELSE <<[title |-> e.title,
                      ep_number |-> ExtractEpNumber(e.title),
                      url |-> a[1]]>>) \o ParseEntries(Tail(es))

\* every episode record the pool can give
EpisodePool == UNION {Range(ParseEntries(<<e>>)) : e \in EntryPool}

\* requests.get(...) + raise_for_status(): a response, a connection error,
\* a non-success status
GetOutcomes == {"ok", "neterr", "badstatus"}

\* numbers a caller may ask for (3 is carried by no entry of the pool)
TargetPool == {1, 2, 3}
\* target_numbers: set(target_numbers) forgets order and repetition, so
\* the lists are the increasing ones and one that repeats a number
TargetLists ==
    UNION {{t \in [1..n -> TargetPool] :
               \A i, j \in 1..n : i < j => t[i] < t[j]} : n \in 0..MaxTargets}
    \cup {<<1, 1>>}
\* counts a caller may pass (Python accepts a negative slice bound)
Counts == (0 - 1)..MaxCount

\* ------------------------------------------------------------ file system
Absent == <<"absent">>
\* a file some earlier process left at the path
Old == <<"old">>
\* a file this program opened and wrote k chunks to
Data(k) == <<"data", k>>
AllPaths == {SafePath(EpisodeFilename(ep)) : ep \in EpisodePool}
\* the path at which an earlier run may have left a file: "EP1.mp3"
LeftOver == <<"E", "P", "1", ".", "m", "p", "3">>

\* ----------------------------------------------------------------- state
VARIABLES
    feedSrc,      \* the document behind rss_url
    episodes,     \* self.episodes
    fs,           \* save_dir: path -> content
    pc,           \* "idle" | "loop" | "writing"
    call,         \* the running (or last) invocation: [kind, arg]
    queue,        \* the sequence the for loop iterates
    idx,          \* position of the loop in queue
    targets_set,  \* targets_set of download_specific_episodes
    cur,          \* the open transfer: [path, chunks]
    attempts,     \* download_file calls of this invocation, in call order
    feedLog,      \* how each feed request of this invocation ended
    outcome,      \* "none" | "running" | "done" | "raised"
    reported,     \* the numbers the not-found warning lists ({}: no warning)
    rerun,        \* this pass repeats the previous, fully successful pass
    calls         \* invocations made so far

dvars == <<feedSrc, episodes, fs, pc, call, queue, idx, targets_set, cur,
           attempts, feedLog, outcome, reported, rerun, calls>>

VARIABLES
    audio_files,      \* the audio files that exist
    art,              \* output_dir: artifact path -> content
    t_pc,             \* "idle" | "segments"
    t_audio,          \* audio_path of the running (or last) transcribe_file
    t_had,            \* which artifacts existed when it was called
    t_ret,            \* what it returned
    t_state,          \* "none" | "running" | "returned"
    asr_calls,        \* model.transcribe calls of this invocation
    written,          \* artifacts this invocation wrote
    raw,              \* the segments the ASR stream has yielded so far
    last_text,        \* last_text
    repeat_count,     \* repeat_count
    transcript_data,  \* transcript_data
    full_text_lines   \* full_text_lines

tvars == <<audio_files, art, t_pc, t_audio, t_had, t_ret, t_state, asr_calls,
           written, raw, last_text, repeat_count, transcript_data,
           full_text_lines>>

vars == <<dvars, tvars>>

NoCur == [path |-> <<>>, chunks |-> 0]

\* ------------------------------------------------- PodcastDownloader: steps
\* parse_feed with self.episodes = [] moved above the request
parse_feed_reset_first(go, old) ==
    IF go = "ok" THEN [raised |-> FALSE, episodes |-> ParseEntries(feedSrc)]
    ELSE [raised |-> TRUE, episodes |-> <<>>]

\* parse_feed: the request succeeds and self.episodes is rebuilt from the
\* document, or it fails and ValueError leaves parse_feed before line 67
parse_feed(go, old) ==
    IF go = "ok" THEN [raised |-> FALSE, episodes |-> ParseEntries(feedSrc)]
    ELSE [raised |-> TRUE, episodes |-> old]

\* what a request's end means to the code around it: both failures raise
Fetched(go) == IF go = "ok" THEN "ok" ELSE "fail"

\* if not self.episodes: self.parse_feed()
EnsureEpisodes(go) ==
    IF episodes = <<>> THEN parse_feed(go, episodes)
    ELSE [raised |-> FALSE, episodes |-> episodes]

\* os.path.exists
Present(f, path) == f[path] # Absent

\* download_file without its existence check
SkipIfExists_never(f, path) == FALSE

\* if os.path.exists(file_path): ... return file_path
SkipIfExists(f, path) == Present(f, path)

\* an except branch that only reports
ExceptCleanup_none(f, path) == f

\* the except branch of download_file: remove what was written
ExceptCleanup(f, path) ==
    IF Present(f, path) THEN [f EXCEPT ![path] = Absent] ELSE f

\* download_file up to the moment the file is open: the existing path is
\* returned without a request, or the request fails (None), or the file is
\* created empty and the chunks follow
download_begin(url, filename, f, go) ==
    LET path == SafePath(filename)
        seen == [path |-> path, existed |-> Present(f, path), pre |-> f[path]]
    IN  IF SkipIfExists(f, path)
        THEN seen @@ [net |-> 0, how |-> "skip", ret |-> Some(path), fs |-> f]
        ELSE IF go # "ok"
        THEN seen @@ [net |-> 1, how |-> "fail0", ret |-> None,
                      fs |-> ExceptCleanup(f, path)]
        ELSE seen @@ [net |-> 1, how |-> "pending", ret |-> None,
                      fs |-> [f EXCEPT ![path] = Data(0)]]

\* the record of one download_file call: the episode's position in the
\* loop (0: a direct call), what was at the path, the requests made, how
\* the call ended ("skip", "ok", "fail0": before the file was opened,
\* "fail1": after; "pending": still writing), the result
Attempt(b, epi) ==
    [ep |-> epi, path |-> b.path, existed |-> b.existed, pre |-> b.pre,
     net |-> b.net, how |-> b.how, ret |-> b.ret]

\* a test that takes every numbered episode
IsTarget_any_number(ep, ts) == ep.ep_number # None

\* ep['ep_number'] in targets_set
IsTarget(ep, ts) == ep.ep_number # None /\ ep.ep_number[1] \in ts

\* a loop that forgets to consume the number
RemoveTarget_keep(ts, ep) == ts

\* targets_set.remove(ep['ep_number'])
RemoveTarget(ts, ep) == ts \ {ep.ep_number[1]}

\* a loop over the whole list
SliceTo_all(s, n) == s

\* self.episodes[:count]
SliceTo(s, n) ==
    IF n >= 0 THEN SubSeq(s, 1, Min(n, Len(s)))
    ELSE SubSeq(s, 1, Max(Len(s) + n, 0))

\* a download_file whose failure reaches the caller's loop as an exception
OutcomeAfterReturn_abort(kind, ret) ==
    IF kind = "single" THEN "done"
    ELSE IF ret = None THEN "raised" ELSE "running"

\* download_file catches every Exception and returns None: the caller's
\* loop goes on whatever the call returned; a direct call is over
OutcomeAfterReturn(kind, ret) == IF kind = "single" THEN "done" ELSE "running"

\* the previous invocation completed and none of its download_file calls
\* returned None
PrevClean ==
    /\ outcome = "done"
    /\ \A i \in 1..Len(attempts) : attempts[i].ret # None

\* what the statement after a returned download_file does
AfterReturn(ret) ==
    /\ outcome' = OutcomeAfterReturn(call.kind, ret)
    /\ pc' = IF outcome' = "running" THEN "loop" ELSE "idle"
    /\ idx' = IF call.kind = "single" THEN idx ELSE idx + 1
    /\ targets_set' = IF call.kind = "specific"
                      THEN RemoveTarget(targets_set, queue[idx])
                      ELSE targets_set

\* a direct call of parse_feed
CallParseFeed(go) ==
    /\ pc = "idle"
    /\ calls < MaxCalls
    /\ calls' = calls + 1
    /\ LET r == parse_feed(go, episodes)
       IN  /\ episodes' = r.episodes
           /\ outcome' = IF r.raised THEN "raised" ELSE "done"
    /\ call' = [kind |-> "parse", arg |-> <<>>]
    /\ feedLog' = <<Fetched(go)>>
    /\ attempts' = <<>>
    /\ queue' = <<>>
    /\ idx' = 1
    /\ targets_set' = {}
    /\ reported' = {}
    /\ rerun' = FALSE
    /\ UNCHANGED <<tvars, feedSrc, fs, pc, cur>>

\* download_specific_episodes(target_numbers), up to the for loop
CallSpecific(tn, go) ==
    /\ pc = "idle"
    /\ calls < MaxCalls
    /\ calls' = calls + 1
    /\ episodes # <<>> => go = "ok"
    /\ call' = [kind |-> "specific", arg |-> tn]
    /\ rerun' = (PrevClean /\ call.kind = "specific" /\ call.arg = tn)
    /\ feedLog' = IF episodes = <<>> THEN <<Fetched(go)>> ELSE <<>>
    /\ attempts' = <<>>
    /\ reported' = {}
    /\ idx' = 1
    /\ LET r == EnsureEpisodes(go)
       IN  /\ episodes' = r.episodes
           /\ IF r.raised
              THEN /\ outcome' = "raised"
                   /\ pc' = "idle"
                   /\ queue' = <<>>
                   /\ targets_set' = {}
              ELSE /\ outcome' = "running"
                   /\ pc' = "loop"
                   /\ queue' = r.episodes
                   /\ targets_set' = Range(tn)
    /\ UNCHANGED <<tvars, feedSrc, fs, cur>>

\* download_recent_episodes(count), up to the for loop
CallRecent(count, go) ==
    /\ pc = "idle"
    /\ calls < MaxCalls
    /\ calls' = calls + 1
    /\ episodes # <<>> => go = "ok"
    /\ call' = [kind |-> "recent", arg |-> <<count>>]
    /\ rerun' = (PrevClean /\ call.kind = "recent" /\ call.arg = <<count>>)
    /\ feedLog' = IF episodes = <<>> THEN <<Fetched(go)>> ELSE <<>>
    /\ attempts' = <<>>
    /\ reported' = {}
    /\ idx' = 1
    /\ targets_set' = {}
    /\ LET r == EnsureEpisodes(go)
       IN  /\ episodes' = r.episodes
           /\ IF r.raised
              THEN /\ outcome' = "raised"
                   /\ pc' = "idle"
                   /\ queue' = <<>>
              ELSE /\ outcome' = "running"
                   /\ pc' = "loop"
                   /\ queue' = SliceTo(r.episodes, count)
    /\ UNCHANGED <<tvars, feedSrc, fs, cur>>

\* one download_file call started from a loop or directly
StartDownload(b, epi) ==
    /\ fs' = b.fs
    /\ attempts' = Append(attempts, Attempt(b, epi))
    /\ IF b.how # "pending"
       THEN /\ AfterReturn(b.ret)
            /\ cur' = NoCur
       ELSE /\ pc' = "writing"
            /\ cur' = [path |-> b.path, chunks |-> 0]
            /\ outcome' = "running"
            /\ UNCHANGED <<idx, targets_set>>

\* a direct call of download_file(url, filename)
CallDownloadFile(ep, go) ==
    /\ pc = "idle"
    /\ calls < MaxCalls
    /\ calls' = calls + 1
    /\ Present(fs, SafePath(EpisodeFilename(ep))) => go = "ok"
    /\ call' = [kind |-> "single", arg |-> <<ep>>]
    /\ rerun' = FALSE
    /\ feedLog' = <<>>
    /\ reported' = {}
    /\ queue' = <<>>
    /\ LET b == download_begin(ep.url, EpisodeFilename(ep), fs, go)
       IN  /\ fs' = b.fs
           /\ attempts' = <<Attempt(b, 0)>>
           /\ idx' = 1
           /\ targets_set' = {}
           /\ IF b.how # "pending"
              THEN /\ outcome' = "done"
                   /\ pc' = "idle"
                   /\ cur' = NoCur
              ELSE /\ outcome' = "running"
                   /\ pc' = "writing"
                   /\ cur' = [path |-> b.path, chunks |-> 0]
    /\ UNCHANGED <<tvars, feedSrc, episodes>>

\* whether the loop body downloads queue[idx]
Selects(ep) == call.kind = "recent" \/ IsTarget(ep, targets_set)

\* a loop iteration of download_specific_episodes whose episode is no target
LoopSkip ==
    /\ pc = "loop"
    /\ idx <= Len(queue)
    /\ ~Selects(queue[idx])
    /\ idx' = idx + 1
    /\ UNCHANGED <<tvars, feedSrc, episodes, fs, pc, call, queue, targets_set, cur,
                   attempts, feedLog, outcome, reported, rerun, calls>>

\* a loop iteration that calls download_file
LoopDownload(go) ==
    /\ pc = "loop"
    /\ idx <= Len(queue)
    /\ Selects(queue[idx])
    /\ Present(fs, SafePath(EpisodeFilename(queue[idx]))) => go = "ok"
    /\ StartDownload(download_begin(queue[idx].url, EpisodeFilename(queue[idx]),
                                    fs, go), idx)
    /\ UNCHANGED <<tvars, feedSrc, episodes, call, queue, feedLog, reported, rerun,
                   calls>>

\* f.write(data) for the next chunk of iter_content
WriteChunk ==
    /\ pc = "writing"
    /\ cur.chunks < MaxChunks
    /\ fs' = [fs EXCEPT ![cur.path] = Data(cur.chunks + 1)]
    /\ cur' = [cur EXCEPT !.chunks = @ + 1]
    /\ UNCHANGED <<tvars, feedSrc, episodes, pc, call, queue, idx, targets_set,
                   attempts, feedLog, outcome, reported, rerun, calls>>

\* download_file returns `ret` with the directory as `f`
Return(ret, f, how) ==
    /\ fs' = f
    /\ attempts' = [attempts EXCEPT ![Len(attempts)] =
                        [@ EXCEPT !.how = how, !.ret = ret]]
    /\ cur' = NoCur
    /\ AfterReturn(ret)
    /\ UNCHANGED <<tvars, feedSrc, episodes, call, queue, feedLog, reported, rerun,
                   calls>>

\* the body is complete: the with block closes the file, file_path is returned
FinishWrite ==
    /\ pc = "writing"
    /\ cur.chunks = MaxChunks
    /\ Return(Some(cur.path), fs, "ok")

\* iter_content or f.write raises after some chunks
ChunkFail ==
    /\ pc = "writing"
    /\ Return(None, ExceptCleanup(fs, cur.path), "fail1")

\* the for loop is exhausted: the warning, then the method returns
LoopEnd ==
    /\ pc = "loop"
    /\ idx > Len(queue)
    /\ reported' = IF call.kind = "specific" THEN targets_set ELSE {}
    /\ outcome' = "done"
    /\ pc' = "idle"
    /\ UNCHANGED <<tvars, feedSrc, episodes, fs, call, queue, idx, targets_set, cur,
                   attempts, feedLog, rerun, calls>>

DInit ==
    /\ feedSrc \in Feeds
    /\ episodes = <<>>
    /\ fs \in {[p \in AllPaths |-> Absent],
                [p \in AllPaths |-> IF p = LeftOver THEN Old ELSE Absent]}
    /\ pc = "idle"
    /\ call = [kind |-> "none", arg |-> <<>>]
    /\ queue = <<>>
    /\ idx = 1
    /\ targets_set = {}
    /\ cur = NoCur
    /\ attempts = <<>>
    /\ feedLog = <<>>
    /\ outcome = "none"
    /\ reported = {}
    /\ rerun = FALSE
    /\ calls = 0

Next ==
    \/ \E go \in GetOutcomes : CallParseFeed(go)
    \/ \E tn \in TargetLists, go \in GetOutcomes : CallSpecific(tn, go)
    \/ \E n \in Counts, go \in GetOutcomes : CallRecent(n, go)
    \/ \E ep \in EpisodePool, go \in GetOutcomes : CallDownloadFile(ep, go)
    \/ LoopSkip
    \/ \E go \in GetOutcomes : LoopDownload(go)
    \/ WriteChunk
    \/ FinishWrite
    \/ ChunkFail
    \/ LoopEnd

\* ---------------------------------------------------- PodcastTranscriber
TInitFixed ==
    /\ audio_files = {}
    /\ art = <<>>
    /\ t_pc = "idle"
    /\ t_audio = <<>>
    /\ t_had = {}
    /\ t_ret = None
    /\ t_state = "none"
    /\ asr_calls = 0
    /\ written = {}
    /\ raw = <<>>
    /\ last_text = <<>>
    /\ repeat_count = 0
    /\ transcript_data = <<>>
    /\ full_text_lines = <<>>

\* the downloader alone: the transcriber's state stays as constructed
Init == DInit /\ TInitFixed

Spec == Init /\ [][Next]_vars

\* the steps of a running invocation; the program is sequential and each
\* blocking call is taken to return
PassStep ==
    \/ LoopSkip
    \/ \E go \in GetOutcomes : LoopDownload(go)
    \/ WriteChunk
    \/ FinishWrite
    \/ ChunkFail
    \/ LoopEnd

\* a downloader whose earlier invocations were direct parse_feed calls that
\* failed, with one invocation left
LastCallInit ==
    /\ TInitFixed
    /\ feedSrc \in Feeds
    /\ fs \in {[p \in AllPaths |-> Absent],
                [p \in AllPaths |-> IF p = LeftOver THEN Old ELSE Absent]}
    /\ episodes = parse_feed("neterr", <<>>).episodes
    /\ outcome = "raised"
    /\ feedLog = <<Fetched("neterr")>>
    /\ call = [kind |-> "parse", arg |-> <<>>]
    /\ calls = MaxCalls - 1
    /\ pc = "idle"
    /\ queue = <<>>
    /\ idx = 1
    /\ targets_set = {}
    /\ cur = NoCur
    /\ attempts = <<>>
    /\ reported = {}
    /\ rerun = FALSE

\* one invocation, run to its end
FairSpec == LastCallInit /\ [][Next]_vars /\ WF_vars(PassStep)

\* ------------------------------------------------- downloader: properties
RECURSIVE IncSeq(_)
\* the members of a finite set of integers in increasing order
IncSeq(S) ==
    IF S = {} THEN <<>>
    ELSE LET m == CHOOSE x \in S : \A y \in S : x <= y
         IN  <<m>> \o IncSeq(S \ {m})

\* the loop positions download_file was called for, in call order
AttemptedEps == [i \in 1..Len(attempts) |-> attempts[i].ep]

\* positions of the entries that are the first to carry a number of T
FirstCarriers(eps, T) ==
    {i \in 1..Len(eps) :
        /\ eps[i].ep_number # None
        /\ eps[i].ep_number[1] \in T
        /\ \A j \in 1..(i - 1) : eps[j].ep_number # eps[i].ep_number}

\* the numbers of T that no entry carries
Uncarried(eps, T) ==
    {t \in T : \A i \in 1..Len(eps) : eps[i].ep_number # Some(t)}

PassDone(kind) == outcome = "done" /\ call.kind = kind

\* C1: when download_specific_episodes has returned, download_file was
\* called for exactly the first entry carrying each target number, in feed
\* order and once each, and the warning lists exactly the targets that no
\* entry of the episode list carries.
C1_FirstMatchSelection ==
    PassDone("specific") =>
        /\ AttemptedEps = IncSeq(FirstCarriers(episodes, Range(call.arg)))
        /\ reported = Uncarried(episodes, Range(call.arg))

\* targets {1,2,3} against episodes numbered [1, 1, 2]: two calls, the
\* second entry numbered 1 passed over, {3} reported
C1_Witness ==
    /\ PassDone("specific")
    /\ Range(call.arg) = {1, 2, 3}
    /\ Len(episodes) = 3
    /\ episodes[1].ep_number = Some(1)
    /\ episodes[2].ep_number = Some(1)
    /\ AttemptedEps = <<1, 3>>
    /\ reported = {3}

\* the target numbers for which download_file was called
MatchedNumbers == {episodes[attempts[i].ep].ep_number[1] : i \in 1..Len(attempts)}

\* C2 as stated: after the pass every requested number is either reported
\* not found, or matched with a file at the matched episode's path, and
\* never both or neither.
C2_Original ==
    PassDone("specific") =>
        \A t \in Range(call.arg) :
            (t \in reported) #
            (\E i \in 1..Len(attempts) :
                /\ episodes[attempts[i].ep].ep_number = Some(t)
                /\ Present(fs, attempts[i].path))

\* C2 amended: after the pass the requested numbers are split into the
\* numbers download_file was called for and the numbers reported not found,
\* disjoint and covering; a file is at the matched episode's path whenever
\* the call returned a path, and a call that failed returned None with its
\* number still counted as matched.
C2_MatchedOrReported ==
    PassDone("specific") =>
        /\ MatchedNumbers \cup reported = Range(call.arg)
        /\ MatchedNumbers \cap reported = {}
        /\ \A i \in 1..Len(attempts) :
              /\ attempts[i].ret # None =>
                    /\ attempts[i].ret = Some(attempts[i].path)
                    /\ Present(fs, attempts[i].path)
              /\ attempts[i].ret = None =>
                    /\ attempts[i].how \in {"fail0", "fail1"}
                    /\ episodes[attempts[i].ep].ep_number[1] \notin reported

\* a pass with a transfer that failed, one that succeeded and a number
\* reported
C2_Witness ==
    /\ PassDone("specific")
    /\ reported # {}
    /\ \E i, j \in 1..Len(attempts) :
          /\ attempts[i].ret = None
          /\ attempts[j].how = "ok"

\* C4: a download_file call that finds a file at its path makes no request,
\* returns that path and leaves the file as it was; and a pass that repeats
\* the previous pass, all of whose calls returned a path, makes no audio
\* request at all.
C4_ExistingFileSkipped ==
    /\ \A i \in 1..Len(attempts) :
          attempts[i].existed =>
              /\ attempts[i].how = "skip"
              /\ attempts[i].net = 0
              /\ attempts[i].ret = Some(attempts[i].path)
              /\ fs[attempts[i].path] = attempts[i].pre
    /\ rerun => \A i \in 1..Len(attempts) : attempts[i].net = 0

\* a repeated pass has returned after two calls that found the files the
\* first pass wrote
C4_Witness ==
    /\ rerun
    /\ outcome = "done"
    /\ Len(attempts) >= 2
    /\ \A i \in 1..Len(attempts) : attempts[i].pre = Data(MaxChunks)

\* C6: a download_file call whose transfer failed returned None, and when
\* it has returned no file is at its path, whether the failure came before
\* the file was opened or after.
C6_FailureLeavesNoFile ==
    \A i \in 1..Len(attempts) :
        attempts[i].how \in {"fail0", "fail1"} =>
            /\ attempts[i].ret = None
            /\ attempts[i].net = 1
            /\ i = Len(attempts) => ~Present(fs, attempts[i].path)

\* a transfer failed after its file had been opened
C6_Witness ==
    /\ attempts # <<>>
    /\ attempts[Len(attempts)].how = "fail1"
    /\ pc = "loop"

\* the loop positions a pass is to download, in order: the first carriers
\* of the targets, or every position of the slice
Selection ==
    IF call.kind = "specific"
    THEN IncSeq(FirstCarriers(episodes, Range(call.arg)))
    ELSE [i \in 1..Len(queue) |-> i]

InPass == call.kind \in {"specific", "recent"} /\ outcome \in {"running", "done"}

\* C7: in both selection modes the calls of download_file made so far are
\* an initial part of the selection, only the latest may still be running,
\* a finished pass has called it for the whole selection once each, and
\* a pass raises only before its first call (the feed request), and every
\* pass that starts finishes, whatever its transfers did.
C7_PassAttemptsAll ==
    /\ [](InPass =>
            /\ Len(attempts) <= Len(Selection)
            /\ AttemptedEps = SubSeq(Selection, 1, Len(attempts))
            /\ \A i \in 1..(Len(attempts) - 1) : attempts[i].how # "pending"
            /\ outcome = "done" => AttemptedEps = Selection)
    /\ [](call.kind \in {"specific", "recent"} /\ outcome = "raised" =>
            attempts = <<>>)
    /\ ((InPass /\ outcome = "running") ~> (InPass /\ outcome = "done"))

\* a pass has finished after a failed transfer followed by another call
C7_Witness ==
    /\ InPass
    /\ outcome = "done"
    /\ Len(attempts) >= 2
    /\ attempts[1].ret = None

\* C8: when download_recent_episodes(N), N >= 0, has returned for a list of
\* K episodes, download_file was called for the first min(N, K) episodes of
\* the list, in order, numbered or not.
C8_RecentTakesPrefix ==
    (PassDone("recent") /\ call.arg[1] >= 0) =>
        /\ AttemptedEps = [i \in 1..Min(call.arg[1], Len(episodes)) |-> i]
        /\ \A i \in 1..Len(attempts) :
              attempts[i].path = SafePath(EpisodeFilename(episodes[i]))

\* count 1 against three episodes: only the first, an unnumbered one
C8_Witness ==
    /\ PassDone("recent")
    /\ call.arg = <<1>>
    /\ Len(episodes) = 3
    /\ episodes[1].ep_number = None
    /\ Len(attempts) = 1

\* C9: an invocation whose feed request failed has raised, made that one
\* request only and called download_file never; the step that raises leaves
\* self.episodes and the directory as they were.
C9_FeedFailureIsFatal ==
    /\ []((\E i \in 1..Len(feedLog) : feedLog[i] = "fail") =>
            /\ outcome = "raised"
            /\ Len(feedLog) = 1
            /\ attempts = <<>>
            /\ pc = "idle")
    /\ [][(pc = "idle" /\ outcome' = "raised") =>
            (episodes' = episodes /\ fs' = fs)]_vars

\* parse_feed failed on a downloader that held a parsed list
C9_Witness ==
    /\ outcome = "raised"
    /\ feedLog = <<"fail">>
    /\ episodes # <<>>

\* audio files a caller may name; both have the base name "a"
AudioPool == {<<"a", ".", "m", "p", "3">>, <<"a", ".", "m", "4", "a">>}

\* os.path.splitext(file_name)[0]: up to the last dot that is not leading
SplitExtBase(name) ==
    LET dots == {i \in 2..Len(name) : name[i] = "."}
    IN  IF dots = {} THEN name
        ELSE SubSeq(name, 1, (CHOOSE x \in dots : \A y \in dots : y <= x) - 1)

\* os.path.join(output_dir, f"{base_name}.txt")
TxtPath(a) == SplitExtBase(a) \o <<".", "t", "x", "t">>
\* os.path.join(output_dir, f"{base_name}.json")
JsonPath(a) == SplitExtBase(a) \o <<".", "j", "s", "o", "n">>
ArtPaths == {TxtPath(a) : a \in AudioPool} \cup {JsonPath(a) : a \in AudioPool}

\* a gate that is content with one artifact
SkipGate_either(ar, a) == ar[TxtPath(a)] # Absent \/ ar[JsonPath(a)] # Absent

\* os.path.exists(txt_path) and os.path.exists(json_path)
SkipGate(ar, a) == ar[TxtPath(a)] # Absent /\ ar[JsonPath(a)] # Absent

\* segment.text as the ASR collaborator may give it: blank, a simplified
\* form, its traditional form, another text with leading whitespace
RawTexts == {<<" ">>, <<"s">>, <<"T">>, <<" ", "u">>}

\* self.cc.convert: the simplified character becomes the traditional one
cc_convert(t) == [i \in 1..Len(t) |-> IF t[i] = "s" THEN "T" ELSE t[i]]

\* the i-th segment of the stream; the times straddle a minute
Segment(i, rt) == [text |-> rt, start |-> 57 + i, end |-> 58 + i]

\* divmod(int(segment.start), 60), divmod(int(segment.end), 60)
TimeStr(seg) ==
    <<seg.start \div 60, seg.start % 60, seg.end \div 60, seg.end % 60>>

\* if text == last_text: repeat_count += 1 else: repeat_count = 0
RepeatCountNext(text, lt, rc) == IF text = lt THEN rc + 1 ELSE 0

\* if repeat_count > MAX_REPEATS: continue
Dropped(rc) == rc > MAX_REPEATS

\* ids that number the kept segments instead
SegmentId_renumber(i, data) == Len(data) + 1

\* "id": i, with i from enumerate(segments, 1)
SegmentId(i, data) == i

\* the three entries full_text_lines starts with
HeaderLines(file_name) ==
    << [kind |-> "source", time |-> <<>>, text |-> file_name],
       [kind |-> "model", time |-> <<>>, text |-> <<>>],
       [kind |-> "rule", time |-> <<>>, text |-> <<>>] >>

\* the locals of transcribe_file are gone once it has returned None or
\* has not reached the segment loop
NoLocals ==
    /\ raw' = <<>>
    /\ last_text' = <<>>
    /\ repeat_count' = 0
    /\ transcript_data' = <<>>
    /\ full_text_lines' = <<>>

\* transcribe_file(audio_path, ...) up to the segment loop; ao is what
\* model.transcribe does
T_Call(a, ao) ==
    /\ t_pc = "idle"
    /\ t_audio' = a
    /\ t_had' = {p \in {TxtPath(a), JsonPath(a)} : art[p] # Absent}
    /\ written' = {}
    /\ IF a \notin audio_files
       THEN /\ t_ret' = None
            /\ asr_calls' = 0
            /\ t_state' = "returned"
            /\ t_pc' = "idle"
            /\ NoLocals
       ELSE IF SkipGate(art, a)
       THEN /\ t_ret' = Some(TxtPath(a))
            /\ asr_calls' = 0
            /\ t_state' = "returned"
            /\ t_pc' = "idle"
            /\ NoLocals
       ELSE IF ao # "ok"
       THEN /\ t_ret' = None
            /\ asr_calls' = 1
            /\ t_state' = "returned"
            /\ t_pc' = "idle"
            /\ NoLocals
       ELSE /\ t_ret' = None
            /\ asr_calls' = 1
            /\ t_state' = "running"
            /\ t_pc' = "segments"
            /\ raw' = <<>>
            /\ last_text' = <<>>
            /\ repeat_count' = 0
            /\ transcript_data' = <<>>
            /\ full_text_lines' = HeaderLines(a)
    /\ UNCHANGED <<dvars, audio_files, art>>

\* one iteration of the segment loop, the stream yielding text rt
T_Segment(rt) ==
    /\ t_pc = "segments"
    /\ Len(raw) < MaxSegs
    /\ LET i == Len(raw) + 1
           seg == Segment(i, rt)
           text == cc_convert(Strip(seg.text))
           rc == RepeatCountNext(text, last_text, repeat_count)
       IN  /\ raw' = Append(raw, seg)
           /\ repeat_count' = rc
           /\ last_text' = text
           /\ IF Dropped(rc)
              THEN UNCHANGED <<transcript_data, full_text_lines>>
              ELSE /\ full_text_lines' =
                         Append(full_text_lines,
                                [kind |-> "segment", time |-> TimeStr(seg),
                                 text |-> text])
                   /\ transcript_data' =
                         Append(transcript_data,
                                [id |-> SegmentId(i, transcript_data),
                                 start |-> seg.start, end |-> seg.end,
                                 text |-> text])
    /\ UNCHANGED <<dvars, audio_files, art, t_pc, t_audio, t_had, t_ret,
                   t_state, asr_calls, written>>

\* the stream raises while it is read: the except branch returns None
T_StreamFail ==
    /\ t_pc = "segments"
    /\ t_ret' = None
    /\ t_state' = "returned"
    /\ t_pc' = "idle"
    /\ NoLocals
    /\ UNCHANGED <<dvars, audio_files, art, t_audio, t_had, asr_calls,
                   written>>

\* the stream is exhausted: both artifacts are written, txt_path returned
T_Write ==
    /\ t_pc = "segments"
    /\ art' = [art EXCEPT ![TxtPath(t_audio)] = <<"text", full_text_lines>>,
                          ![JsonPath(t_audio)] = <<"json", transcript_data>>]
    /\ written' = {TxtPath(t_audio), JsonPath(t_audio)}
    /\ t_ret' = Some(TxtPath(t_audio))
    /\ t_state' = "returned"
    /\ t_pc' = "idle"
    /\ UNCHANGED <<dvars, audio_files, t_audio, t_had, asr_calls, raw,
                   last_text, repeat_count, transcript_data, full_text_lines>>

\* the transcriber alone: the downloader's state stays as constructed
DInitFixed ==
    /\ feedSrc = <<>>
    /\ episodes = <<>>
    /\ fs = <<>>
    /\ pc = "idle"
    /\ call = [kind |-> "none", arg |-> <<>>]
    /\ queue = <<>>
    /\ idx = 1
    /\ targets_set = {}
    /\ cur = NoCur
    /\ attempts = <<>>
    /\ feedLog = <<>>
    /\ outcome = "none"
    /\ reported = {}
    /\ rerun = FALSE
    /\ calls = 0

TInit ==
    /\ DInitFixed
    /\ audio_files \in SUBSET AudioPool
    /\ art \in [ArtPaths -> {Absent, Old}]
    /\ t_pc = "idle"
    /\ t_audio = <<>>
    /\ t_had = {}
    /\ t_ret = None
    /\ t_state = "none"
    /\ asr_calls = 0
    /\ written = {}
    /\ raw = <<>>
    /\ last_text = <<>>
    /\ repeat_count = 0
    /\ transcript_data = <<>>
    /\ full_text_lines = <<>>

TNext ==
    \/ \E a \in AudioPool, ao \in {"ok", "raise"} : T_Call(a, ao)
    \/ \E rt \in RawTexts : T_Segment(rt)
    \/ T_StreamFail
    \/ T_Write

TSpec == TInit /\ [][TNext]_vars

\* ------------------------------------------------ transcriber: properties
\* the texts the repeat filter sees: stripped, then converted
Conv == [i \in 1..Len(raw) |-> cc_convert(Strip(raw[i].text))]

\* positions that are not the third or a later one of a run of equal texts
FirstTwoOfRuns ==
    {i \in 1..Len(raw) :
        ~(i >= 3 /\ Conv[i] = Conv[i - 1] /\ Conv[i - 1] = Conv[i - 2])}

\* transcribe_file wrote its artifacts and returned
Transcribed == t_state = "returned" /\ written # {}

\* the locals of the segment loop hold this invocation's values
LocalsLive == t_state = "running" \/ Transcribed

\* C3 as stated: the kept segments are exactly the first two of every
\* maximal run of equal converted texts, in stream order, for every text and
\* also for a run that starts the stream.
C3_FirstTwoOfEveryRun ==
    Transcribed =>
        [k \in 1..Len(transcript_data) |-> transcript_data[k].start]
            = [k \in 1..Cardinality(FirstTwoOfRuns) |->
                   raw[IncSeq(FirstTwoOfRuns)[k]].start]

\* C5: for an audio file that exists, transcribe_file called with both
\* artifacts present returns the text path without calling the ASR model
\* and without writing; called with at most one present, it calls the
\* model.
C5_SkipGate ==
    (t_state # "none" /\ t_audio \in audio_files) =>
        IF t_had = {TxtPath(t_audio), JsonPath(t_audio)}
        THEN /\ t_state = "returned"
             /\ asr_calls = 0
             /\ written = {}
             /\ t_ret = Some(TxtPath(t_audio))
        ELSE asr_calls = 1

\* a second call finds the artifacts the first one wrote
C5_Witness ==
    /\ t_state = "returned"
    /\ t_audio \in audio_files
    /\ t_had = {TxtPath(t_audio), JsonPath(t_audio)}
    /\ asr_calls = 0
    /\ art[TxtPath(t_audio)][1] = "text"
    /\ art[JsonPath(t_audio)][1] = "json"

\* C10: the text lines after the three header entries and the structured
\* records are the same segments in the same order; a record's id is the
\* 1-based position of its segment in the ASR stream, so ids increase
\* strictly and leave a gap for every dropped segment; the artifacts
\* written are these two lists.
C10_SameSegmentsRawIds ==
    LocalsLive =>
        /\ Len(full_text_lines) = 3 + Len(transcript_data)
        /\ \A k \in 1..3 : full_text_lines[k].kind # "segment"
        /\ \A k \in 1..Len(transcript_data) :
              LET d == transcript_data[k]
                  l == full_text_lines[3 + k]
              IN  /\ l.kind = "segment"
                  /\ l.text = d.text
                  /\ l.time = TimeStr(d)
                  /\ d.id \in 1..Len(raw)
                  /\ d.text = Conv[d.id]
                  /\ d.start = raw[d.id].start
                  /\ d.end = raw[d.id].end
                  /\ k > 1 => transcript_data[k - 1].id < d.id
        /\ Cardinality((1..Len(raw)) \
                       {transcript_data[k].id : k \in 1..Len(transcript_data)})
              = Len(raw) - Len(transcript_data)
        /\ Transcribed =>
              /\ art[TxtPath(t_audio)] = <<"text", full_text_lines>>
              /\ art[JsonPath(t_audio)] = <<"json", transcript_data>>

\* artifacts written with a kept segment after a dropped one
C10_Witness ==
    /\ Transcribed
    /\ \E k \in 1..Len(transcript_data) : transcript_data[k].id > k

=============================================================================
